---- MODULE Spec2Model ----
(***************************************************************************)
(* A model of the mesh composition core of src/main.py: the Mesh class     *)
(* (add_mesh, merge_vertices), the primitive generators (create_cube,      *)
(* create_sphere, create_cylinder, create_torus), the accumulator of       *)
(* GLWidget (meshes, combined_mesh, add_mesh) and the slots of MainWindow  *)
(* that fill it (add_cube, add_sphere, add_cylinder, add_torus).           *)
(*                                                                         *)
(* Numbers.  A coordinate is an integer number of thousandths (1.0 is      *)
(* 1000), so that the default welding threshold 0.01 is the integer 10.    *)
(* A product of two such numbers is rounded back to thousandths (FMul).    *)
(*                                                                         *)
(* Arrays.  A numpy array is the sequence of its rows, each row a sequence *)
(* of integers.  The only one-dimensional array the program ever builds is *)
(* np.array([]) of shape (0,): it is the empty sequence.  A two-           *)
(* dimensional array of shape (n, w), n >= 1, is a sequence of n rows of   *)
(* length w (w may be 0).                                                   *)
(*                                                                         *)
(* Objects.  A Mesh is a record that carries, besides its two arrays, the  *)
(* identities vbuf and fbuf of the buffers that hold them; None is a       *)
(* record of its own.                                                      *)
(***************************************************************************)
EXTENDS Integers, Sequences, FiniteSets, TLC

\* ------------------------------------------------------------------ bounds
\* generators are called with 0..MaxSeg segments
MaxSeg == 3
\* create_torus is called with 0..MaxSides sides
MaxSides == 3
\* the accumulator of the pipeline holds at most MaxMeshes meshes
MaxMeshes == 3
\* the window is given a further mesh only while its accumulator holds at most
\* MaxAccumulated vertices
MaxAccumulated == 8
\* a hand-built input mesh has at most MaxRawVerts vertices
MaxRawVerts == 3
\* a run of Mesh operations on generated meshes, and a run of GLWidget.add_mesh
\* calls on hand-built meshes, is at most MaxOps calls long
MaxOps == 2

\* ------------------------------------------------------- numeric semantics
\* thousandths per unit
Scale == 10 * 100

\* a * b for two numbers in thousandths, rounded to the nearest thousandth
FMul(a, b) == (a * b + Scale \div 2) \div Scale

\* angles are counted in ticks of 1/192 of a turn (1.875 degrees): every angle
\* the generators compute for a segment count that divides 96 is a whole
\* number of ticks
Turn == 64 * 3

\* 1000 * cos of k ticks, k in 0..Turn/4, rounded to the nearest thousandth
CosTable(k) ==
    CASE k = 0 -> 1000
      [] k = 1 -> 999
      [] k = 2 -> 998
      [] k = 3 -> 995
      [] k = 4 -> 991
      [] k = 5 -> 987
      [] k = 6 -> 981
      [] k = 7 -> 974
      [] k = 8 -> 966
      [] k = 9 -> 957
      [] k = 10 -> 947
      [] k = 11 -> 936
      [] k = 12 -> 924
      [] k = 13 -> 911
      [] k = 14 -> 897
      [] k = 15 -> 882
      [] k = 16 -> 866
      [] k = 17 -> 849
      [] k = 18 -> 831
      [] k = 19 -> 813
      [] k = 20 -> 793
      [] k = 21 -> 773
      [] k = 22 -> 752
      [] k = 23 -> 730
      [] k = 24 -> 707
      [] k = 25 -> 684
      [] k = 26 -> 659
      [] k = 27 -> 634
      [] k = 28 -> 609
      [] k = 29 -> 582
      [] k = 30 -> 556
      [] k = 31 -> 528
      [] k = 32 -> 500
      [] k = 33 -> 471
      [] k = 34 -> 442
      [] k = 35 -> 413
      [] k = 36 -> 383
      [] k = 37 -> 352
      [] k = 38 -> 321
      [] k = 39 -> 290
      [] k = 40 -> 259
      [] k = 41 -> 227
      [] k = 42 -> 195
      [] k = 43 -> 163
      [] k = 44 -> 131
      [] k = 45 -> 98
      [] k = 46 -> 65
      [] k = 47 -> 33
      [] k = 48 -> 0

\* np.cos of an angle given in ticks, in thousandths
Cos(ticks) ==
    LET k == ticks % Turn IN
    IF k <= Turn \div 4 THEN CosTable(k)
    ELSE IF k <= Turn \div 2 THEN - CosTable(Turn \div 2 - k)
    ELSE IF k <= (3 * Turn) \div 4 THEN - CosTable(k - Turn \div 2)
    ELSE CosTable(Turn - k)

\* np.sin of an angle given in ticks, in thousandths
Sin(ticks) == Cos(ticks - Turn \div 4)

\* the segment counts whose angles are whole numbers of ticks
WholeTicks(n) == n = 0 \/ (Turn \div 2) % n = 0

Segs == {s \in 0..MaxSeg : WholeTicks(s)}

Sides == {d \in 0..MaxSides : WholeTicks(d)}

\* ------------------------------------------------------------------ arrays
\* len(x) of an array
PyLen(x) == Len(x)

\* np.atleast_2d: shape (0,) becomes shape (1, 0)
atleast_2d(x) == IF x = <<>> THEN << <<>> >> ELSE x

\* np.vstack((x, y)): the rows of x then the rows of y; raises ValueError when
\* the row widths differ.  The result is [ok, val]; ok = FALSE is the exception.
vstack(x, y) ==
    LET X == atleast_2d(x)
        Y == atleast_2d(y)
    IN  IF Len(X[1]) = Len(Y[1])
        THEN [ok |-> TRUE, val |-> X \o Y]
        ELSE [ok |-> FALSE, val |-> <<>>]

\* x + k for an array x and a scalar k (elementwise, shape kept)
AddScalar(x, k) == [i \in 1..Len(x) |-> [j \in 1..Len(x[i]) |-> x[i][j] + k]]

\* x += row for an array x of shape (n, w) and a row of length w (broadcast)
AddRow(x, row) == [i \in 1..Len(x) |-> [j \in 1..Len(x[i]) |-> x[i][j] + row[j]]]

\* the square of np.linalg.norm(v - u) for two rows of the same length
RECURSIVE SqDistFrom(_, _, _)
SqDistFrom(v, u, j) ==
    IF j > Len(v) THEN 0
    ELSE (v[j] - u[j]) * (v[j] - u[j]) + SqDistFrom(v, u, j + 1)

SqDist(v, u) == SqDistFrom(v, u, 1)

\* ------------------------------------------------------------------- Mesh
None == [kind |-> "None"]

\* Mesh(vertices, faces), its arrays held in the buffers vb and fb
Mesh(vertices, faces, vb, fb) ==
    [kind |-> "Mesh", vertices |-> vertices, faces |-> faces, vbuf |-> vb, fbuf |-> fb]

IsMesh(m) == m.kind = "Mesh"

\* Mesh.add_mesh(self, other_mesh); the two new arrays get the buffers nb, nb + 1
add_mesh(self, other_mesh, nb) ==
    IF ~ IsMesh(other_mesh) THEN None
    ELSE
    LET offset == PyLen(self.vertices)
        new_vertices == vstack(self.vertices, other_mesh.vertices)
        new_faces == vstack(self.faces, AddScalar(other_mesh.faces, offset))
    IN  IF new_vertices.ok /\ new_faces.ok
        THEN Mesh(new_vertices.val, new_faces.val, nb, nb + 1)
        ELSE None

\* the squared distance of v and u from coordinate j on is below bound: each
\* term is, and the rest is below what the term leaves of the bound
RECURSIVE SqDistBelow(_, _, _, _)
SqDistBelow(v, u, j, bound) ==
    IF j > Len(v) THEN bound > 0
    ELSE /\ (v[j] - u[j]) * (v[j] - u[j]) < bound
         /\ SqDistBelow(v, u, j + 1, bound - (v[j] - u[j]) * (v[j] - u[j]))

\* Within with <= for <
Within_OrEqual(vertex, unique_vertex, threshold) ==
    threshold >= 0 /\ SqDist(vertex, unique_vertex) <= threshold * threshold

\* np.linalg.norm(vertex - unique_vertex) < threshold
Within(vertex, unique_vertex, threshold) ==
    threshold > 0 /\ SqDistBelow(vertex, unique_vertex, 1, threshold * threshold)

\* FirstMatch choosing the nearest kept vertex within the threshold (the first of
\* the nearest ones)
FirstMatch_Nearest(unique_vertices, vertex, threshold) ==
    LET hits == {i \in 1..Len(unique_vertices) :
                    Within(vertex, unique_vertices[i], threshold)}
        d(i) == SqDist(vertex, unique_vertices[i])
    IN  IF hits = {} THEN -1
        ELSE (CHOOSE i \in hits :
                \A j \in hits : d(i) < d(j) \/ (d(i) = d(j) /\ i <= j)) - 1

\* the inner for loop of merge_vertices: the 0-based index of the first kept
\* vertex within the threshold, or -1 when the loop ends without a break
FirstMatch(unique_vertices, vertex, threshold) ==
    LET hits == {i \in 1..Len(unique_vertices) :
                    Within(vertex, unique_vertices[i], threshold)}
    IN  IF hits = {} THEN -1
        ELSE (CHOOSE i \in hits : \A j \in hits : i <= j) - 1

\* MergeStep that moves the kept vertex to the vertex merged into it
MergeStep_Moving(acc, vertex, threshold) ==
    LET i == FirstMatch(acc.unique_vertices, vertex, threshold) IN
    IF i >= 0
    THEN [unique_vertices |-> [acc.unique_vertices EXCEPT ![i + 1] = vertex],
          indices |-> Append(acc.indices, i)]
    ELSE [unique_vertices |-> Append(acc.unique_vertices, vertex),
          indices |-> Append(acc.indices, Len(acc.unique_vertices))]

\* one pass of the outer for loop of merge_vertices
MergeStep(acc, vertex, threshold) ==
    LET i == FirstMatch(acc.unique_vertices, vertex, threshold) IN
    IF i >= 0
    THEN [unique_vertices |-> acc.unique_vertices,
          indices |-> Append(acc.indices, i)]
    ELSE [unique_vertices |-> Append(acc.unique_vertices, vertex),
          indices |-> Append(acc.indices, Len(acc.unique_vertices))]

\* the outer for loop of merge_vertices over vertices[lo..hi], in index order,
\* entered with the passes before lo done (one entry of indices per pass): the
\* passes lo..mid, then the passes mid+1..hi on what those left.  The halving
\* only keeps the evaluation shallow.
RECURSIVE MergeLoop(_, _, _, _, _)
MergeLoop(vertices, lo, hi, acc, threshold) ==
    IF Len(acc.indices) >= hi THEN acc
    ELSE IF lo = hi THEN MergeStep(acc, vertices[lo], threshold)
    ELSE LET mid == (lo + hi) \div 2
         IN  MergeLoop(vertices, mid + 1, hi,
                       MergeLoop(vertices, lo, mid, acc, threshold), threshold)

\* indices[vertex] of a Python list: a negative index counts from the end, an
\* index outside -len..len-1 raises IndexError
IndexOk(indices, vertex) == - Len(indices) <= vertex /\ vertex < Len(indices)

ListGet(indices, vertex) ==
    IF vertex >= 0 THEN indices[vertex + 1] ELSE indices[Len(indices) + vertex + 1]

\* merge_vertices that returns self when no vertex was merged
merge_vertices_Reusing(self, threshold, nb) ==
    LET acc == MergeLoop(self.vertices, 1, Len(self.vertices),
                         [unique_vertices |-> <<>>, indices |-> <<>>], threshold)
        raises == \E f \in 1..Len(self.faces) : \E j \in 1..Len(self.faces[f]) :
                      ~ IndexOk(acc.indices, self.faces[f][j])
        new_faces == [f \in 1..Len(self.faces) |->
                        [j \in 1..Len(self.faces[f]) |->
                            ListGet(acc.indices, self.faces[f][j])]]
    IN  IF raises THEN None
        ELSE IF Len(acc.unique_vertices) = Len(self.vertices) THEN self
        ELSE Mesh(acc.unique_vertices, new_faces, nb, nb + 1)

\* Mesh.merge_vertices(self, threshold); the two new arrays get the buffers nb, nb + 1
merge_vertices(self, threshold, nb) ==
    LET acc == MergeLoop(self.vertices, 1, Len(self.vertices),
                         [unique_vertices |-> <<>>, indices |-> <<>>], threshold)
        raises == \E f \in 1..Len(self.faces) : \E j \in 1..Len(self.faces[f]) :
                      ~ IndexOk(acc.indices, self.faces[f][j])
        new_faces == [f \in 1..Len(self.faces) |->
                        [j \in 1..Len(self.faces[f]) |->
                            ListGet(acc.indices, self.faces[f][j])]]
    IN  IF raises THEN None
        ELSE Mesh(acc.unique_vertices, new_faces, nb, nb + 1)

\* the default of merge_vertices' threshold parameter, 0.01
DefaultThreshold == 10

\* -------------------------------------------------------------- generators
\* create_cube(size)
create_cube(size, nb) ==
    Mesh(<< <<-size, -size, -size>>, <<size, -size, -size>>,
            <<size, size, -size>>,   <<-size, size, -size>>,
            <<-size, -size, size>>,  <<size, -size, size>>,
            <<size, size, size>>,    <<-size, size, size>> >>,
         << <<0, 1, 2, 3>>, <<4, 5, 6, 7>>, <<0, 1, 5, 4>>,
            <<2, 3, 7, 6>>, <<0, 3, 7, 4>>, <<1, 2, 6, 5>> >>,
         nb, nb + 1)

\* the two vertices create_sphere appends for band i and step j
SphereVertex(radius, segments, i, j, upper) ==
    LET lat == IF upper THEN ((Turn \div 2) * (i + 1)) \div segments - Turn \div 4
                        ELSE ((Turn \div 2) * i) \div segments - Turn \div 4
        z == Sin(lat)
        zr == Cos(lat)
        lng == (Turn * j) \div segments
        x == Cos(lng)
        y == Sin(lng)
    IN  << FMul(FMul(x, zr), radius), FMul(FMul(y, zr), radius), FMul(z, radius) >>

\* range(start, stop, 2) as a sequence
RangeBy2(start, stop) ==
    IF stop <= start THEN <<>>
    ELSE [k \in 1..((stop - start + 1) \div 2) |-> start + 2 * (k - 1)]

\* create_sphere(radius, segments)
create_sphere(radius, segments, nb) ==
    LET n == 2 * segments * segments
        vertices == [k \in 1..n |->
                        LET p == (k - 1) \div 2
                        IN  SphereVertex(radius, segments, p \div segments,
                                         p % segments, (k - 1) % 2 = 1)]
        is == RangeBy2(0, n - segments * 2)
        faces == [k \in 1..Len(is) |->
                    << is[k], is[k] + 1, is[k] + segments * 2 + 1, is[k] + segments * 2 >>]
    IN  Mesh(vertices, faces, nb, nb + 1)

\* CylinderWrap without the wrap-around: the last quad runs off the ring
CylinderWrap_NoModulo(id, segments) == id

\* the second and third ids of a side quad of create_cylinder
CylinderWrap(id, segments) == id % (segments * 2)

\* create_cylinder(radius, height, segments)
create_cylinder(radius, height, segments, nb) ==
    LET vertices == [k \in 1..(2 * segments) |->
                        LET i == (k - 1) \div 2
                            angle == (Turn * i) \div segments
                            x == FMul(Cos(angle), radius)
                            y == FMul(Sin(angle), radius)
                        IN  << x, y, IF (k - 1) % 2 = 0 THEN 0 ELSE height >>]
        is == RangeBy2(0, segments * 2)
        faces == [k \in 1..Len(is) |->
                    << is[k], CylinderWrap(is[k] + 2, segments),
                       CylinderWrap(is[k] + 3, segments), is[k] + 1 >>]
    IN  Mesh(vertices, faces, nb, nb + 1)

\* create_torus(inner_radius, outer_radius, segments, sides)
create_torus(inner_radius, outer_radius, segments, sides, nb) ==
    LET vertices == [k \in 1..(segments * sides) |->
                        LET i == (k - 1) \div sides
                            j == (k - 1) % sides
                            angle == (Turn * i) \div segments
                            theta == (Turn * j) \div sides
                            r == outer_radius + FMul(inner_radius, Cos(theta))
                        IN  << FMul(r, Cos(angle)), FMul(r, Sin(angle)),
                               FMul(inner_radius, Sin(theta)) >>]
        faces == [k \in 1..(segments * sides) |->
                    LET i == (k - 1) \div sides
                        j == (k - 1) % sides
                    IN  << i * sides + j,
                           i * sides + ((j + 1) % sides),
                           ((i + 1) % segments) * sides + ((j + 1) % sides),
                           ((i + 1) % segments) * sides + j >>]
    IN  Mesh(vertices, faces, nb, nb + 1)


\* ------------------------------------------------------------ the program
VARIABLES
    meshes,         \* GLWidget.meshes, the accumulator
    combined_mesh,  \* GLWidget.combined_mesh, the cached result (or None)
    calls,          \* history: the callers of GLWidget.add_mesh, in order
    nextbuf,        \* the identity the next new array buffer gets
    a,              \* the mesh a Mesh method is called on
    b,              \* the other mesh of an add_mesh call
    thr,            \* the threshold of the last merge_vertices call
    r,              \* what the last call returned
    r2,             \* what merge_vertices returned on r, at the same threshold
    pc,             \* the last call: "idle", "add", "merge", "remerge", "append"
    ops             \* the number of Mesh method calls made so far

vars == << meshes, combined_mesh, calls, nextbuf, a, b, thr, r, r2, pc, ops >>

pipeline == << meshes, combined_mesh, calls >>
bench == << a, b, thr, r, r2, pc, ops >>

\* the parameters MainWindow passes to the generators, in thousandths
CubeSize == 1000
SphereRadius == 1000
CylinderRadius == 500
CylinderHeight == 2000
TorusInner == 200
TorusOuter == 800
\* the x offset per accumulated mesh, 2.0
Spacing == 2000

\* create_sphere(1.0, 32), create_cylinder(0.5, 2.0, 32), create_torus(0.2, 0.8, 32, 16)
SphereSegments == 32
CylinderSegments == 32
TorusSegments == 32
TorusSides == 16

\* the for loop of GLWidget.add_mesh over ms[k..]: combined_mesh.add_mesh(m)
\* raises AttributeError once combined_mesh is None, which ends the try block
RECURSIVE FoldLoop(_, _, _, _)
FoldLoop(ms, k, combined, nb) ==
    IF k > Len(ms) \/ ~ IsMesh(combined) THEN combined
    ELSE FoldLoop(ms, k + 1, add_mesh(combined, ms[k], nb), nb + 2)

\* Recombine that also welds a single accumulated mesh
Recombine_FromOne(ms, old, nb) ==
    IF Len(ms) > 0
    THEN LET folded == FoldLoop(ms, 2, ms[1], nb)
         IN  IF IsMesh(folded)
             THEN merge_vertices(folded, DefaultThreshold, nb + 2 * Len(ms))
             ELSE None
    ELSE old

\* Recombine that keeps the previous result when a step fails
Recombine_KeepOld(ms, old, nb) ==
    IF Len(ms) > 1
    THEN LET folded == FoldLoop(ms, 2, ms[1], nb)
             welded == IF IsMesh(folded)
                       THEN merge_vertices(folded, DefaultThreshold, nb + 2 * Len(ms))
                       ELSE None
         IN  IF IsMesh(welded) THEN welded ELSE old
    ELSE old

\* the try block of GLWidget.add_mesh, meshes already appended: the value of
\* combined_mesh when the method returns
Recombine(ms, old, nb) ==
    IF Len(ms) > 1
    THEN LET folded == FoldLoop(ms, 2, ms[1], nb)
         IN  IF IsMesh(folded)
             THEN merge_vertices(folded, DefaultThreshold, nb + 2 * Len(ms))
             ELSE None
    ELSE old

\* GLWidget.add_mesh(mesh): the accumulator and the cached result afterwards
GLWidget_add_mesh(ms, old, mesh, nb) ==
    LET appended == Append(ms, mesh)
    IN  [meshes |-> appended, combined_mesh |-> Recombine(appended, old, nb)]

\* the buffers a call of GLWidget.add_mesh on n accumulated meshes may allocate
BufsOfAppend(n) == 2 * (n + 2)

\* Translate that leaves the second cube where the first is
Translate_FromSecond(mesh, n) ==
    IF n > 1
    THEN [mesh EXCEPT !.vertices = AddRow(mesh.vertices, << Spacing * n, 0, 0 >>)]
    ELSE mesh

\* cube.vertices += np.array([2.0 * len(self.glWidget.meshes), 0.0, 0.0])
Translate(mesh, n) ==
    IF n > 0
    THEN [mesh EXCEPT !.vertices = AddRow(mesh.vertices, << Spacing * n, 0, 0 >>)]
    ELSE mesh

\* the vertices the meshes of ms hold, all in all
RECURSIVE TotalVertices(_)
TotalVertices(ms) ==
    IF ms = <<>> THEN 0
    ELSE Len(ms[Len(ms)].vertices) + TotalVertices(SubSeq(ms, 1, Len(ms) - 1))

\* the window takes a further mesh
HasRoom == Len(meshes) < MaxMeshes /\ TotalVertices(meshes) <= MaxAccumulated

\* self.glWidget.add_mesh(mesh), called by caller; mesh holds the buffers
\* nextbuf, nextbuf + 1
Append_mesh(mesh, caller) ==
    /\ \E after \in {GLWidget_add_mesh(meshes, combined_mesh, mesh, nextbuf + 2)} :
         /\ meshes' = after.meshes
         /\ combined_mesh' = after.combined_mesh
    /\ calls' = Append(calls, caller)
    /\ nextbuf' = nextbuf + 2 + BufsOfAppend(Len(meshes))
    /\ UNCHANGED bench

\* MainWindow.add_cube
AddCube ==
    /\ HasRoom
    /\ Append_mesh(Translate(create_cube(CubeSize, nextbuf), Len(meshes)), "add_cube")

\* MainWindow.add_sphere
AddSphere ==
    /\ HasRoom
    /\ Append_mesh(Translate(create_sphere(SphereRadius, SphereSegments, nextbuf),
                             Len(meshes)), "add_sphere")

\* MainWindow.add_cylinder
AddCylinder ==
    /\ HasRoom
    /\ Append_mesh(Translate(create_cylinder(CylinderRadius, CylinderHeight,
                                             CylinderSegments, nextbuf),
                             Len(meshes)), "add_cylinder")

\* MainWindow.add_torus
AddTorus ==
    /\ HasRoom
    /\ Append_mesh(Translate(create_torus(TorusInner, TorusOuter, TorusSegments,
                                          TorusSides, nextbuf),
                             Len(meshes)), "add_torus")

\* the spheres create_sphere returns for the bounded segment counts
Spheres(nb) == {create_sphere(SphereRadius, s, nb) : s \in Segs}

\* the meshes the generators return for the bounded segment and side counts
GenMeshes(nb) ==
    {create_cube(CubeSize, nb)}
    \cup Spheres(nb)
    \cup {create_cylinder(CylinderRadius, CylinderHeight, s, nb) : s \in Segs}
    \cup {create_torus(TorusInner, TorusOuter, s, d, nb) : s \in Segs, d \in Sides}

\* hand-built meshes Mesh(vertices, faces) of one quad on two vertices: one valid,
\* and three with a face id that is no index of vertices (too large, negative,
\* below -len)
Quad(i) == << 0, i, 0, 0 >>
Corner == << << 0, 0, 0 >>, << Scale, 0, 0 >> >>
BadIds(n) == {n, -1, -n - 1}
HandMeshes(nb) ==
    {Mesh(Corner, << Quad(i) >>, nb, nb + 1) : i \in {1} \cup BadIds(Len(Corner))}

\* the meshes a tool script gives the window: the small spheres, the valid quad
\* and the quad with an id past the end
ToolMeshes(nb) ==
    Spheres(nb) \cup {Mesh(Corner, << Quad(i) >>, nb, nb + 1) : i \in {1, Len(Corner)}}

\* self.glWidget.add_mesh(mesh) called by a script that import_custom_tool
\* runs with exec, in the scope of the window
ImportMesh ==
    /\ HasRoom
    /\ \E mesh \in ToolMeshes(nextbuf) : Append_mesh(mesh, "import")

InitPipeline ==
    /\ meshes = <<>>
    /\ combined_mesh = None
    /\ calls = <<>>

InitCalls ==
    /\ thr = 0
    /\ r = None
    /\ r2 = None
    /\ pc = "idle"
    /\ ops = 0

Init ==
    /\ InitPipeline
    /\ InitCalls
    /\ a = None
    /\ b = None
    /\ nextbuf = 1

Next == AddCube \/ AddSphere \/ AddCylinder \/ AddTorus \/ ImportMesh

\* the window: the four menu slots that add a primitive, and tool scripts
Spec == Init /\ [][Next]_vars

\* ------------------------------------------- Mesh methods on generated meshes
\* the thresholds merge_vertices is called with on generated meshes
GenThresholds == {0, DefaultThreshold}

InitGen ==
    /\ InitPipeline
    /\ InitCalls
    /\ a \in GenMeshes(1)
    /\ b \in GenMeshes(3)
    /\ nextbuf = 5

\* r = a.add_mesh(b)
GenAddMesh ==
    /\ ops < MaxOps
    /\ r' = add_mesh(a, b, nextbuf)
    /\ pc' = "add"
    /\ ops' = ops + 1
    /\ nextbuf' = nextbuf + 2
    /\ UNCHANGED << pipeline, a, b, thr, r2 >>

\* r = a.merge_vertices(t)
GenMergeVertices ==
    /\ ops < MaxOps
    /\ \E t \in GenThresholds :
         /\ r' = merge_vertices(a, t, nextbuf)
         /\ thr' = t
    /\ pc' = "merge"
    /\ ops' = ops + 1
    /\ nextbuf' = nextbuf + 2
    /\ UNCHANGED << pipeline, a, b, r2 >>

\* the returned mesh becomes the mesh the next method is called on
KeepAsSelf ==
    /\ pc \in {"add", "merge"}
    /\ IsMesh(r)
    /\ a' = r
    /\ pc' = "idle"
    /\ UNCHANGED << pipeline, nextbuf, b, thr, r, r2, ops >>

\* the returned mesh becomes the other mesh of the next add_mesh
KeepAsOther ==
    /\ pc \in {"add", "merge"}
    /\ IsMesh(r)
    /\ b' = r
    /\ pc' = "idle"
    /\ UNCHANGED << pipeline, nextbuf, a, thr, r, r2, ops >>

NextGen == GenAddMesh \/ GenMergeVertices \/ KeepAsSelf \/ KeepAsOther

\* runs of add_mesh and merge_vertices that start from generated meshes
SpecGen == InitGen /\ [][NextGen]_vars

\* ------------------------------------------ Mesh methods on hand-built meshes
\* the points hand-built vertices are taken from: four on the x axis, a unit
\* apart, and one off the axis
Points ==
    {<< Scale * x, 0, 0 >> : x \in {0, 1, 2, 3}} \cup {<< Scale, Scale, 0 >>}

\* the sequences over S of length n
RECURSIVE SeqsOfLen(_, _)
SeqsOfLen(S, n) ==
    IF n = 0 THEN {<<>>}
    ELSE {Append(q, x) : q \in SeqsOfLen(S, n - 1), x \in S}

VertexLists == UNION {SeqsOfLen(Points, n) : n \in 0..MaxRawVerts}

\* the face lists tried on n vertices: none; one face of all ids in order; that
\* face and its reverse; one quad with a bad id
AllIds(n) == [k \in 1..n |-> k - 1]
Backwards(n) == [k \in 1..n |-> n - k]
FaceLists(n) ==
    {<<>>, << AllIds(n) >>, << AllIds(n), Backwards(n) >>}
    \cup {<< Quad(i) >> : i \in BadIds(n)}

\* Mesh(vertices, faces) for the hand-built vertex and face lists
RawMeshes(nb) ==
    UNION {{Mesh(vs, fs, nb, nb + 1) : fs \in FaceLists(Len(vs))} : vs \in VertexLists}

\* the thresholds merge_vertices is called with on hand-built meshes: 0, the
\* default 0.01, 1.5 and 3.0
Thresholds == {0, DefaultThreshold, (3 * Scale) \div 2, 3 * Scale}

InitFn ==
    /\ InitPipeline
    /\ InitCalls
    /\ a \in RawMeshes(1)
    /\ b = None
    /\ nextbuf = 3

\* r = a.add_mesh(b)
CallAddMesh ==
    /\ pc = "idle"
    /\ \E m \in HandMeshes(nextbuf) :
         /\ b' = m
         /\ r' = add_mesh(a, m, nextbuf + 2)
    /\ pc' = "add"
    /\ nextbuf' = nextbuf + 4
    /\ UNCHANGED << pipeline, a, thr, r2, ops >>

\* r = a.merge_vertices(t)
CallMergeVertices ==
    /\ pc = "idle"
    /\ \E t \in Thresholds :
         /\ thr' = t
         /\ r' = merge_vertices(a, t, nextbuf)
    /\ pc' = "merge"
    /\ nextbuf' = nextbuf + 2
    /\ UNCHANGED << pipeline, a, b, r2, ops >>

\* r2 = r.merge_vertices(t), with the t of the call that returned r
CallMergeAgain ==
    /\ pc = "merge"
    /\ IsMesh(r)
    /\ r2' = merge_vertices(r, thr, nextbuf)
    /\ pc' = "remerge"
    /\ nextbuf' = nextbuf + 2
    /\ UNCHANGED << pipeline, a, b, thr, r, ops >>

\* GLWidget.add_mesh(m) on a widget of its own, one call a step: the first call
\* gives it a, the later ones hand-built meshes
CallAppend ==
    /\ pc \in {"idle", "append"}
    /\ Len(meshes) < MaxOps
    /\ \E m \in (IF meshes = <<>> THEN {a} ELSE HandMeshes(nextbuf)) :
         /\ \E after \in {GLWidget_add_mesh(meshes, combined_mesh, m, nextbuf + 2)} :
              /\ meshes' = after.meshes
              /\ combined_mesh' = after.combined_mesh
         /\ b' = IF meshes = <<>> THEN b ELSE m
    /\ calls' = Append(calls, "import")
    /\ pc' = "append"
    /\ nextbuf' = nextbuf + 2 + BufsOfAppend(Len(meshes))
    /\ UNCHANGED << a, thr, r, r2, ops >>

NextFn == CallAddMesh \/ CallMergeVertices \/ CallMergeAgain \/ CallAppend

\* single calls of the Mesh methods and of the accumulator on hand-built meshes
SpecFn == InitFn /\ [][NextFn]_vars

\* ------------------------------------------------------------------ properties
\* m is a mesh and every id of every face of m is an index of m.vertices
Valid(m) ==
    /\ IsMesh(m)
    /\ \A f \in 1..Len(m.faces) : \A j \in 1..Len(m.faces[f]) :
          0 <= m.faces[f][j] /\ m.faces[f][j] < Len(m.vertices)

\* the arrays of a mesh without their buffers; None for None
Data(m) ==
    IF IsMesh(m) THEN [vertices |-> m.vertices, faces |-> m.faces] ELSE None

\* the buffers a mesh holds
Bufs(m) == IF IsMesh(m) THEN {m.vbuf, m.fbuf} ELSE {}

\* ms[1].add_mesh(ms[2])...add_mesh(ms[k]), None once a step returned None
RECURSIVE LeftFold(_, _)
LeftFold(ms, k) ==
    IF k = 1 THEN ms[1]
    ELSE LET prev == LeftFold(ms, k - 1)
         IN  IF IsMesh(prev) THEN add_mesh(prev, ms[k], 0) ELSE None

\* m.merge_vertices() at the default threshold, None for None
Welded(m) == IF IsMesh(m) THEN merge_vertices(m, DefaultThreshold, 0) ELSE None

\* the fold of ms or the weld of the fold returns None
RecomputeFails(ms) == ~ IsMesh(Welded(LeftFold(ms, Len(ms))))

\* C1: every mesh a generator returns, for every bounded segment and side count
\* from 0 up, and every mesh that runs of add_mesh and merge_vertices make of
\* such meshes, has only face ids i with 0 <= i < len(vertices).
C1_IndexValidity == Valid(a) /\ Valid(b) /\ (IsMesh(r) => Valid(r))

\* C1's case: add_mesh returned a mesh with faces, called on a mesh that an
\* earlier add_mesh or merge_vertices returned
C1_Witness ==
    pc = "add" /\ IsMesh(r) /\ a.vbuf >= 5 /\ Len(r.faces) > 0

\* C2: for any two valid meshes a, b, a.add_mesh(b) returns a mesh whose
\* vertices are a's then b's, whose faces are a's unchanged then b's with every
\* id raised by len(a.vertices), so that both counts are the sums of the inputs'.
C2_AddMeshConcatenates ==
    (pc = "add" /\ Valid(a) /\ Valid(b)) =>
        /\ IsMesh(r)
        /\ r.vertices = a.vertices \o b.vertices
        /\ r.faces = a.faces \o
               [f \in 1..Len(b.faces) |->
                   [j \in 1..Len(b.faces[f]) |-> b.faces[f][j] + Len(a.vertices)]]
        /\ Len(r.vertices) = Len(a.vertices) + Len(b.vertices)
        /\ Len(r.faces) = Len(a.faces) + Len(b.faces)

\* C3: after any appends of valid meshes the cached result depends on the
\* accumulator only: it is None below two meshes, and from two meshes on it is
\* merge_vertices at 0.01 of the left-to-right fold of the whole accumulator
\* (None when the fold or the weld returns None).
C3_CachedIsFoldOfAccumulator ==
    (\A k \in 1..Len(meshes) : Valid(meshes[k])) =>
        Data(combined_mesh) =
            IF Len(meshes) < 2 THEN None
            ELSE Data(Welded(LeftFold(meshes, Len(meshes))))

\* C3's case: three valid meshes appended and a result cached
C3_Witness ==
    /\ Len(meshes) = 3
    /\ \A k \in 1..3 : Valid(meshes[k])
    /\ IsMesh(combined_mesh)
    /\ Len(combined_mesh.vertices) > Len(meshes[1].vertices)

\* vertex h of vs is kept under the map I: no earlier vertex has its index
IsKept(I, h) == \A g \in 1..(h - 1) : I[g] # I[h]

\* I is the first-match map of vs at threshold t: vertex k goes to the index of
\* the earliest kept vertex before it at a distance strictly below t, and to
\* the next free index when there is none
IsFirstMatchMap(I, vs, t) ==
    \A k \in 1..Len(vs) :
        LET near == {h \in 1..(k - 1) :
                        IsKept(I, h) /\ SqDist(vs[k], vs[h]) < t * t}
            kept == {h \in 1..(k - 1) : IsKept(I, h)}
        IN  IF near # {}
            THEN \E h \in near : (\A g \in near : h <= g) /\ I[k] = I[h]
            ELSE I[k] = Cardinality(kept)

\* C4: merge_vertices(threshold) is first-match welding: in index order each
\* vertex maps to the lowest-index kept vertex strictly nearer than threshold
\* (a nearer, later-kept vertex does not win), else it is kept and maps to its
\* new index; the result's vertices are the kept ones in insertion order and
\* its faces are the original ones with every id replaced by its mapped index.
C4_FirstMatchWelding ==
    (pc = "merge" /\ Valid(a)) =>
        /\ IsMesh(r)
        /\ LET vs == a.vertices
               n == Len(vs)
           IN  \E I \in [1..n -> 0..(n - 1)] :
                 /\ IsFirstMatchMap(I, vs, thr)
                 /\ Len(r.vertices) = Cardinality({h \in 1..n : IsKept(I, h)})
                 /\ \A h \in 1..n : IsKept(I, h) => r.vertices[I[h] + 1] = vs[h]
                 /\ Len(r.faces) = Len(a.faces)
                 /\ \A f \in 1..Len(a.faces) :
                      r.faces[f] = [j \in 1..Len(a.faces[f]) |-> I[a.faces[f][j] + 1]]

\* C4's case: the third vertex is within 3.0 of both kept vertices and nearer to
\* the second; it is mapped to the first
C4_Witness ==
    /\ pc = "merge"
    /\ thr = 3 * Scale
    /\ a.vertices = << <<0, 0, 0>>, <<3 * Scale, 0, 0>>, <<2 * Scale, 0, 0>> >>
    /\ a.faces = << <<0, 1, 2>> >>
    /\ IsMesh(r)
    /\ r.faces = << <<0, 1, 0>> >>

\* C5 as stated: merge_vertices with threshold 0 merges the vertices with
\* identical coordinates and no others, so the result keeps one vertex per
\* distinct coordinate triple.
C5_ExactDedup ==
    (pc = "merge" /\ thr = 0 /\ Valid(a)) =>
        /\ IsMesh(r)
        /\ Len(r.vertices) =
               Cardinality({a.vertices[k] : k \in 1..Len(a.vertices)})

\* C5: merge_vertices with threshold 0 merges nothing, the comparison being
\* strict: the result has the vertices and the faces of its input, identical
\* vertices included.
C5_ZeroThresholdMergesNothing ==
    (pc = "merge" /\ thr = 0 /\ Valid(a)) =>
        /\ IsMesh(r)
        /\ r.vertices = a.vertices
        /\ r.faces = a.faces

\* C5's case: [(0,0,0), (0,0,0), (1,0,0)] with the face [0,1,2] welded at 0
C5_Witness ==
    /\ pc = "merge"
    /\ thr = 0
    /\ a.vertices = << <<0, 0, 0>>, <<0, 0, 0>>, <<Scale, 0, 0>> >>
    /\ a.faces = << <<0, 1, 2>> >>
    /\ IsMesh(r)
    /\ Len(r.vertices) = 3

\* two add_cube calls on a new window
TwoCubes == calls = << "add_cube", "add_cube" >>

\* C6 as stated: after two add_cube calls the fold has 16 vertices, the cached
\* welded result 16 vertices and 12 faces.
C6_TwoCubesSixteen ==
    TwoCubes =>
        /\ Len(LeftFold(meshes, 2).vertices) = 16
        /\ IsMesh(combined_mesh)
        /\ Len(combined_mesh.vertices) = 16
        /\ Len(combined_mesh.faces) = 12

\* C6: after two add_cube calls the fold has 16 vertices and the cached welded
\* result 12 vertices and 12 faces: the second cube is moved by 2.0, the cubes
\* span 2.0, and the four vertices of the face they share are welded.
C6_TwoCubesTwelve ==
    TwoCubes =>
        /\ Len(LeftFold(meshes, 2).vertices) = 16
        /\ IsMesh(combined_mesh)
        /\ Len(combined_mesh.vertices) = 12
        /\ Len(combined_mesh.faces) = 12

\* C6's case: two add_cube calls, the second cube moved by 2.0 along x
C6_Witness ==
    /\ TwoCubes
    /\ meshes[2].vertices[1] = << Spacing - CubeSize, - CubeSize, - CubeSize >>
    /\ IsMesh(combined_mesh)

\* C7: a mesh with a face id outside [0, len(vertices)) is detected by add_mesh,
\* as either operand, and by merge_vertices: each returns None, never a mesh.
C7_MalformedDetected ==
    /\ (pc = "add" /\ (~ Valid(a) \/ ~ Valid(b))) => r = None
    /\ (pc = "merge" /\ ~ Valid(a)) => r = None

\* C8: for a valid mesh and a threshold t >= 0, merge_vertices(t) returns no
\* more vertices than it was given, and merge_vertices(t) of its result has as
\* many vertices as that result.
C8_WeldIdempotentOnCount ==
    (pc \in {"merge", "remerge"} /\ Valid(a)) =>
        /\ IsMesh(r)
        /\ Len(r.vertices) <= Len(a.vertices)
        /\ pc = "remerge" =>
              IsMesh(r2) /\ Len(r2.vertices) = Len(r.vertices)

\* C8's case: a weld that merged some vertices and kept several, welded again
C8_Witness ==
    /\ pc = "remerge"
    /\ Valid(a)
    /\ thr > 0
    /\ 1 < Len(r.vertices)
    /\ Len(r.vertices) < Len(a.vertices)
    /\ IsMesh(r2)

\* what a step of the method calls leaves alone: the mesh the methods are
\* called on, the other mesh of an add_mesh once passed, the meshes given to
\* the accumulator; and the result holds no buffer of an input
C9_Frame ==
    /\ a' = a
    /\ pc' = "add" => Bufs(r') \cap (Bufs(a) \cup Bufs(b')) = {}
    /\ pc' = "merge" => Bufs(r') \cap Bufs(a) = {}
    /\ pc' = "remerge" => r' = r /\ Bufs(r2') \cap (Bufs(r) \cup Bufs(a)) = {}
    /\ pc' = "append" =>
          /\ meshes' = Append(meshes, meshes'[Len(meshes')])
          /\ meshes'[1] = a
          /\ \A k \in 1..Len(meshes') :
                Bufs(combined_mesh') \cap Bufs(meshes'[k]) = {}

\* C9: add_mesh, merge_vertices and the recompute of GLWidget.add_mesh leave
\* the vertices and faces of their inputs and of the accumulated meshes as they
\* were, and the mesh they return shares no buffer with any input.
C9_InputsUntouched == [][C9_Frame]_vars

\* C9's case: a weld that merged nothing, so that its result has the data of
\* its input, in buffers of its own
C9_Witness ==
    /\ pc = "merge"
    /\ IsMesh(r)
    /\ Len(a.vertices) > 1
    /\ r.vertices = a.vertices
    /\ r.faces = a.faces
    /\ Bufs(r) \cap Bufs(a) = {}

\* every step appends one mesh, and when the recompute over two or more meshes
\* fails the cached result is None
C10_Step ==
    /\ Len(meshes') = Len(meshes) + 1
    /\ SubSeq(meshes', 1, Len(meshes)) = meshes
    /\ (Len(meshes') >= 2 /\ RecomputeFails(meshes')) => combined_mesh' = None

\* C10: when a fold step or the final merge_vertices of GLWidget.add_mesh
\* returns None, with two or more meshes accumulated, the appended mesh stays in
\* the accumulator, which grew by exactly one, and the cached result is None:
\* neither the previous result nor an unwelded fold.
C10_FailedRecomputeClears == [][C10_Step]_vars

\* C10's case: a result was cached for two meshes, the third append failed
C10_Witness ==
    /\ Len(meshes) = 3
    /\ IsMesh(Welded(LeftFold(meshes, 2)))
    /\ RecomputeFails(meshes)
    /\ combined_mesh = None

====
